---- MODULE Spec2Model ----
(***************************************************************************)
(* The pushdown state machine of src/automaton.rs (Machine, State,         *)
(* StateTools, apply_result), the three units of its unit test, and a      *)
(* family of units whose hooks may declare any effect the typed            *)
(* constructors allow.                                                     *)
(*                                                                         *)
(* apply_result is tail recursive: the pair (result, stack_pos) is the     *)
(* whole continuation of a cascade, so one interpretation of one effect    *)
(* (one match arm, with every hook it calls) is one action.                *)
(*                                                                         *)
(* Spec          any root unit, hooks declaring any effect                 *)
(* SpecTest      the machine of test_machine under any sequence of events  *)
(* SpecConserve  a short prefix of Spec, then pushes followed by finishes  *)
(***************************************************************************)
EXTENDS Integers, Sequences, FiniteSets, Bags, TLC

\* Events delivered to Machine::act in one run.
MaxSteps == 1
\* Unit instances created in one run (the root included).
MaxUnits == 4
\* i32 payloads of the generic units range over 0..MaxVal.
MaxVal == 0
\* Events delivered in one run of the unit test's machine.
MaxTestSteps == 3
\* Action::Set carries a value in 0..MaxTestVal.
MaxTestVal == 2
\* A push/finish run follows a prefix of at most MaxPreSteps events that
\* created at most MaxPreUnits units, and makes at most MaxRun pushes.
MaxPreSteps == 1
MaxPreUnits == 3
MaxRun == 2
\* Keys delivered to the task application in one run.
MaxAppSteps == 6
\* The text typed into an input dialog is at most MaxText characters long.
MaxText == 1

VARIABLES
    state,            \* Machine.state: the active unit
    stack,            \* Machine.stack: suspended units, oldest first
    data,             \* the shared context (&mut D)
    pc,               \* "idle" (outside Machine::act), "apply" (inside apply_result), or a panic message
    result,           \* apply_result's argument `result`
    stack_pos,        \* apply_result's argument `stack_pos`
    events,           \* the actions handed to Machine::act so far
    next_id,          \* number of unit instances created so far
    calls,            \* hook invocations of the current Machine::act call, in order
    exited,           \* bag of unit ids: how often each unit's on_exit has run
    overflow_checks,  \* the build: "on" panics on usize underflow, "off" wraps; "any" until
                      \* the first underflow, before which the two builds do the same
    run               \* observer of a run of pushes followed by finishes: where it began, the
                      \* pushes and the finishes so far (engine code never reads it)

engine == <<state, stack, data, pc, result, stack_pos, events, next_id, calls, exited, overflow_checks>>
vars == <<engine, run>>

-----------------------------------------------------------------------------
(* Values, units, effects *)

\* Box<dyn Any>: a value together with its concrete type.
Val(t, x) == [ty |-> t, v |-> x]
UnitVal == Val("unit", 0)
NoVal == Val("none", 0)
I32Vals == {Val("i32", x) : x \in 0..MaxVal}
Vals(t) == IF t = "unit" THEN {UnitVal} ELSE I32Vals

\* A boxed unit: its identity, its concrete type, and its field (End.0).
Unit(i, k, x) == [id |-> i, kind |-> k, f |-> x]
NoUnit == Unit(0, "none", 0)

\* The units of mod test, and generic units with the same three (Input, Return)
\* pairs: UU = (unit, unit), UI = (unit, i32), IU = (i32, unit).
TestKinds == {"Begin", "GetValue", "End"}
GenKinds == {"UU", "UI", "IU"}

\* State::Input
Input(k) ==
    CASE k = "Begin" -> "i32"
      [] k = "GetValue" -> "unit"
      [] k = "End" -> "unit"
      [] k \in {"UU", "UI"} -> "unit"
      [] k = "IU" -> "i32"
      [] k \in {"NormalState", "OneTaskState", "SearchTaskState", "QuickInputState",
                "QuickSelectState"} -> "unit"
      [] k = "AddLinkState" -> "Option<TaskId>"
      [] k \in {"QuickCreateState", "SetDescriptionState", "SetFilterState",
                "SetFilterTitleState", "SetPomodoroState"} -> "Option<String>"

\* State::Return
Return(k) ==
    CASE k = "Begin" -> "unit"
      [] k = "GetValue" -> "i32"
      [] k = "End" -> "unit"
      [] k \in {"UU", "IU"} -> "unit"
      [] k = "UI" -> "i32"
      [] k \in {"NormalState", "OneTaskState", "AddLinkState", "QuickCreateState",
                "SetDescriptionState", "SetFilterState", "SetFilterTitleState",
                "SetPomodoroState"} -> "unit"
      [] k = "SearchTaskState" -> "Option<TaskId>"
      [] k \in {"QuickInputState", "QuickSelectState"} -> "Option<String>"

\* ActResult / PrivilegedActResult
Effect(t, u, x) == [tag |-> t, unit |-> u, value |-> x]
Nothing == Effect("Nothing", NoUnit, NoVal)

\* StateTools: the constructors; their type bounds are checked by the
\* compiler, so a hook can only build the effects listed in Declarable.
transition(s) == Effect("To", s, NoVal)
replace(s) == Effect("Replace", s, NoVal)
push(s) == Effect("Push", s, NoVal)
do_yield(x) == Effect("Yield", NoUnit, x)
pop(x) == Effect("Return", NoUnit, x)

\* Every effect unit u can declare when n units exist already.
Declarable(u, n) ==
    {Nothing}
    \cup {transition(Unit(n + 1, k, 0)) : k \in GenKinds}
    \cup {replace(Unit(n + 1, k, 0)) : k \in {j \in GenKinds : Return(j) = Return(u.kind)}}
    \cup {push(Unit(n + 1, k, 0)) : k \in {j \in GenKinds : Return(j) = Input(u.kind)}}
    \cup {do_yield(x) : x \in Vals(Return(u.kind))}
    \cup {pop(x) : x \in Vals(Return(u.kind))}

\* What a hook hands back: the context as it left it, and its ActResult.
Out(d, r) == [data |-> d, result |-> r]

-----------------------------------------------------------------------------
(* The task application: its context (Tasker) and the store of tasks *)

\* Option<T>
None == [some |-> FALSE]
Some(x) == [some |-> TRUE, x |-> x]

\* String: the sequence of its characters
Str_Title == <<"T", "i", "t", "l", "e">>
Str_Todo == <<"T", "o", "d", "o">>
Str_Done == <<"D", "o", "n", "e">>
Str_Clear == <<"C", "l", "e", "a", "r">>
Str_Start == <<"S", "t", "a", "r", "t">>
Str_Break5 == <<"B", "r", "e", "a", "k", " ", "5", "m">>
Str_Break10 == <<"B", "r", "e", "a", "k", " ", "1", "0", "m">>
Str_Test == <<"T", "e", "s", "t">>

\* u64::to_string
RECURSIVE to_string(_)
to_string(i) ==
    LET digit == <<"0", "1", "2", "3", "4", "5", "6", "7", "8", "9">>[(i % 10) + 1]
    IN IF i < 10 THEN <<digit>> ELSE Append(to_string(i \div 10), digit)

\* str::contains
Contains(s, t) == \E i \in 0..(Len(s) - Len(t)) : SubSeq(s, i + 1, i + Len(t)) = t

\* String::pop
StrPop(s) == IF s = <<>> THEN s ELSE SubSeq(s, 1, Len(s) - 1)

\* KeyEvent, by its KeyCode
Key(code, c) == [code |-> code, c |-> c]
Char(c) == Key("Char", c)
Chars == {"n", "f", "e", "p", "l", "m", " ", "t", "d", "D", "c", "b", "B"}
AppKeys == {Char(c) : c \in Chars} \cup {Key(k, "") : k \in {"Enter", "Esc", "Up", "Down", "Backspace"}}

\* Task, as TaskStore::new_task creates it
Task(id) == [id |-> id, title |-> <<>>, description |-> <<>>, status |-> "Todo",
             pomodoros |-> 0, links |-> <<>>]

\* Task::toggle_status
toggle_status(task) == [task EXCEPT !.status = IF @ = "Todo" THEN "Done" ELSE "Todo"]

\* TaskStore::default
TaskStoreDefault == [tasks |-> <<>>, id_counter |-> 0]

\* The counter is not advanced: the new task takes the id of the last one.
new_task_Reuse(store) ==
    LET id == IF store.id_counter = 0 THEN 1 ELSE store.id_counter
    IN [id |-> id, store |-> [tasks |-> (id :> Task(id)) @@ store.tasks, id_counter |-> id]]

\* TaskStore::new_task: the id of the new task and the store holding it
new_task(store) ==
    LET id == store.id_counter + 1
    IN [id |-> id, store |-> [tasks |-> (id :> Task(id)) @@ store.tasks, id_counter |-> id]]

\* TaskStore::get_task / get_task_mut succeed
has_task(store, id) == id \in DOMAIN store.tasks

\* Filter::default
FilterDefault == [title |-> <<>>, status |-> None]

\* The sequences that list the elements of S once each (HashMap::values
\* iterates in an arbitrary order).
RECURSIVE Orders(_)
Orders(S) == IF S = {} THEN {<<>>} ELSE UNION {{Append(s, x) : s \in Orders(S \ {x})} : x \in S}

\* Filter::apply
Filter_apply(filter, store) ==
    Orders({id \in DOMAIN store.tasks :
                /\ Contains(store.tasks[id].title, filter.title)
                /\ filter.status.some => store.tasks[id].status = filter.status.x})

\* TaskList (tasks, selection; selection counts from 0)
TaskListDefault == [tasks |-> <<>>, selection |-> 0]

\* TaskList::selection: the selected TaskId, 0 for None
selection(list) == IF list.selection < Len(list.tasks) THEN list.tasks[list.selection + 1] ELSE 0

\* TaskList::apply_filter: every list it may produce
apply_filter(list, appdata, filter) ==
    {[tasks |-> ts, selection |-> 0] : ts \in Filter_apply(filter, appdata.store)}

\* Down moves the selection whatever the length of the list.
list_down_Free(list) == [list EXCEPT !.selection = @ + 1]

\* KeyCode::Up / KeyCode::Down on a TaskList
list_up(list) == [list EXCEPT !.selection = IF @ = 0 THEN 0 ELSE @ - 1]
list_down(list) == IF list.selection + 1 < Len(list.tasks) THEN [list EXCEPT !.selection = @ + 1] ELSE list

\* Pane
PaneMain == [tag |-> "Main"]
PaneOneTask(view) == [tag |-> "OneTask", view |-> view]

\* TaskView::new (the task exists)
TaskView_new(task_id, appdata) ==
    [task_id |-> task_id,
     link_list |-> [tasks |-> appdata.store.tasks[task_id].links, selection |-> 0]]

\* Tasker::default
TaskerDefault ==
    [tasklist |-> TaskListDefault, quick_input |-> None, quick_select |-> None, search |-> None,
     pane |-> PaneMain, data |-> [store |-> TaskStoreDefault], filter |-> FilterDefault,
     timer |-> None]

\* The units of the application: kind, TaskId field (0 when it has none) and
\* the fields of the dialog units.
NoParams == [text |-> <<>>, continuous |-> FALSE, choices |-> <<>>]
AppUnit(i, k, x, p) == [id |-> i, kind |-> k, f |-> x, p |-> p]
BaseKinds == {"NormalState", "OneTaskState"}
MediatorKinds == {"QuickCreateState", "SetDescriptionState", "SetFilterState",
                  "SetFilterTitleState", "SetPomodoroState", "AddLinkState"}
DialogKinds == {"QuickInputState", "QuickSelectState", "SearchTaskState"}
AppKinds == BaseKinds \cup MediatorKinds \cup DialogKinds

\* QuickInputState::new(title).text(text).continuous(v)
QuickInputState(i, text, v) ==
    AppUnit(i, "QuickInputState", 0, [NoParams EXCEPT !.text = text, !.continuous = v])
\* QuickSelectState::new(title, choices)
QuickSelectState(i, choices) ==
    AppUnit(i, "QuickSelectState", 0, [NoParams EXCEPT !.choices = choices])

\* A hook panicked: nothing is returned to apply_result.
Panic(msg) == [tag |-> "Panic", unit |-> NoUnit, value |-> [ty |-> msg, v |-> 0]]

\* Option<String> / Option<TaskId> / () as Box<dyn Any>
OptString(o) == [ty |-> "Option<String>", v |-> o]
OptTaskId(i) == [ty |-> "Option<TaskId>", v |-> i]

-----------------------------------------------------------------------------
(* The hooks of the application's units (state.rs, state/dialogs.rs) *)

NoTask == "Task doesn't exist"
WrongPane == "Wrong pane"
Unwrap == "called Option::unwrap() on a None value"

\* NormalState::act
NormalState_act(u, d, key, n) ==
    LET sel == selection(d.tasklist) IN
    CASE key = Char("n") -> {Out(d, push(AppUnit(n + 1, "QuickCreateState", 0, NoParams)))}
      [] key = Char("f") -> {Out(d, push(AppUnit(n + 1, "SetFilterState", 0, NoParams)))}
      [] key.code = "Up" -> {Out([d EXCEPT !.tasklist = list_up(@)], Nothing)}
      [] key.code = "Down" -> {Out([d EXCEPT !.tasklist = list_down(@)], Nothing)}
      [] key.code = "Enter" ->
            {Out(d, IF sel # 0 THEN transition(AppUnit(n + 1, "OneTaskState", sel, NoParams))
                    ELSE Nothing)}
      [] key = Char(" ") ->
            IF sel = 0 THEN {Out(d, Nothing)}
            ELSE IF ~has_task(d.data.store, sel) THEN {Out(d, Panic(NoTask))}
            ELSE {Out([d EXCEPT !.data.store.tasks[sel] = toggle_status(@)], Nothing)}
      [] key = Char("m") ->
            LET new == new_task(d.data.store)
                store == [new.store EXCEPT !.tasks[new.id].title = to_string(new.id)]
                tasks == Append(d.tasklist.tasks, new.id)
            IN {Out([d EXCEPT !.data.store = store,
                              !.tasklist = [tasks |-> tasks, selection |-> Len(tasks) - 1]],
                    Nothing)}
      [] key = Char("e") ->
            {Out(d, IF sel # 0 THEN push(AppUnit(n + 1, "SetDescriptionState", sel, NoParams))
                    ELSE Nothing)}
      [] key = Char("p") ->
            {Out(d, IF sel # 0 THEN push(AppUnit(n + 1, "SetPomodoroState", sel, NoParams))
                    ELSE Nothing)}
      [] OTHER -> {Out(d, Nothing)}

\* The pane is left as it was.
NormalState_on_enter_Keep(u, d, n) == {Out(d, Nothing)}

\* NormalState::on_enter
NormalState_on_enter(u, d, n) == {Out([d EXCEPT !.pane = PaneMain], Nothing)}

\* OneTaskState::act
OneTaskState_act(u, d, key, n) ==
    IF d.pane.tag # "OneTask" THEN {Out(d, Panic(WrongPane))} ELSE
    LET view == d.pane.view
        sel == selection(view.link_list)
    IN
    CASE key.code = "Esc" -> {Out(d, transition(AppUnit(n + 1, "NormalState", 0, NoParams)))}
      [] key = Char("n") -> {Out(d, push(AppUnit(n + 1, "QuickCreateState", 0, NoParams)))}
      [] key.code = "Up" -> {Out([d EXCEPT !.pane.view.link_list = list_up(@)], Nothing)}
      [] key.code = "Down" -> {Out([d EXCEPT !.pane.view.link_list = list_down(@)], Nothing)}
      [] key.code = "Enter" ->
            {Out(d, IF sel # 0 THEN transition(AppUnit(n + 1, "OneTaskState", sel, NoParams))
                    ELSE Nothing)}
      [] key = Char(" ") ->
            IF ~has_task(d.data.store, view.task_id) THEN {Out(d, Panic(NoTask))}
            ELSE {Out([d EXCEPT !.data.store.tasks[view.task_id] = toggle_status(@)], Nothing)}
      [] key = Char("l") -> {Out(d, push(AppUnit(n + 1, "AddLinkState", u.f, NoParams)))}
      [] key = Char("e") -> {Out(d, push(AppUnit(n + 1, "SetDescriptionState", u.f, NoParams)))}
      [] OTHER -> {Out(d, Nothing)}

\* OneTaskState::on_enter
OneTaskState_on_enter(u, d, n) ==
    IF ~has_task(d.data.store, u.f) THEN {Out(d, Panic(NoTask))}
    ELSE {Out([d EXCEPT !.pane = PaneOneTask(TaskView_new(u.f, d.data))], Nothing)}

\* The act of AddLinkState, QuickCreateState, SetDescriptionState,
\* SetFilterState, SetFilterTitleState, SetPomodoroState: panic!(..)
Mediator_act(u, d, key, n) == {Out(d, Panic("shouldn't receive actions"))}

\* The link is stored in the viewed task only.
AddLinkState_resume_OneWay(u, d, value, n) ==
    LET id == u.f
        oid == value.v
    IN
    IF oid = 0 THEN {Out(d, pop(UnitVal))}
    ELSE IF ~has_task(d.data.store, id) THEN {Out(d, Panic(NoTask))}
    ELSE LET d1 == [d EXCEPT !.data.store.tasks[id].links = Append(@, oid)] IN
         IF d.pane.tag # "OneTask" THEN {Out(d1, Panic(WrongPane))}
         ELSE {Out([d1 EXCEPT !.pane.view.link_list.tasks = Append(@, oid)], pop(UnitVal))}

\* AddLinkState::resume
AddLinkState_resume(u, d, value, n) ==
    LET id == u.f
        oid == value.v
    IN
    IF oid = 0 THEN {Out(d, pop(UnitVal))}
    ELSE IF ~has_task(d.data.store, id) THEN {Out(d, Panic(NoTask))}
    ELSE LET d1 == [d EXCEPT !.data.store.tasks[id].links = Append(@, oid)] IN
         IF ~has_task(d.data.store, oid) THEN {Out(d1, Panic(NoTask))}
         ELSE LET d2 == [d1 EXCEPT !.data.store.tasks[oid].links = Append(@, id)] IN
              IF d.pane.tag # "OneTask" THEN {Out(d2, Panic(WrongPane))}
              ELSE {Out([d2 EXCEPT !.pane.view.link_list.tasks = Append(@, oid)], pop(UnitVal))}

\* AddLinkState::on_enter
AddLinkState_on_enter(u, d, n) == {Out(d, push(AppUnit(n + 1, "SearchTaskState", 0, NoParams)))}

\* A cancelled dialog creates a task too (with an empty title).
QuickCreateState_resume_Create(u, d, value, n) ==
    LET new == new_task(d.data.store)
        store == [new.store EXCEPT !.tasks[new.id].title = IF value.v.some THEN value.v.x ELSE <<>>]
        tasks == Append(d.tasklist.tasks, new.id)
    IN {Out([d EXCEPT !.data.store = store,
                      !.tasklist = [tasks |-> tasks, selection |-> Len(tasks) - 1]],
            pop(UnitVal))}

\* QuickCreateState::resume
QuickCreateState_resume(u, d, value, n) ==
    IF ~value.v.some THEN {Out(d, pop(UnitVal))}
    ELSE LET new == new_task(d.data.store)
             store == [new.store EXCEPT !.tasks[new.id].title = value.v.x]
             tasks == Append(d.tasklist.tasks, new.id)
         IN {Out([d EXCEPT !.data.store = store,
                           !.tasklist = [tasks |-> tasks, selection |-> Len(tasks) - 1]],
                 pop(UnitVal))}

\* The dialog is never opened: on_enter declares nothing.
QuickCreateState_on_enter_Idle(u, d, n) == {Out(d, Nothing)}

\* QuickCreateState::on_enter
QuickCreateState_on_enter(u, d, n) == {Out(d, push(QuickInputState(n + 1, <<>>, FALSE)))}

\* SetDescriptionState::resume
SetDescriptionState_resume(u, d, value, n) ==
    IF ~value.v.some THEN {Out(d, pop(UnitVal))}
    ELSE IF ~has_task(d.data.store, u.f) THEN {Out(d, Panic(NoTask))}
    ELSE {Out([d EXCEPT !.data.store.tasks[u.f].description = value.v.x], pop(UnitVal))}

\* SetDescriptionState::on_enter
SetDescriptionState_on_enter(u, d, n) ==
    IF ~has_task(d.data.store, u.f) THEN {Out(d, Panic(NoTask))}
    ELSE {Out(d, push(QuickInputState(n + 1, d.data.store.tasks[u.f].description, FALSE)))}

\* SetFilterState::resume
SetFilterState_resume(u, d, value, n) ==
    IF ~value.v.some THEN {Out(d, pop(UnitVal))}
    ELSE IF value.v.x = Str_Title
    THEN {Out(d, replace(AppUnit(n + 1, "SetFilterTitleState", 0, NoParams)))}
    ELSE LET text == value.v.x
             filter == CASE text = Str_Clear -> FilterDefault
                         [] text = Str_Done -> [d.filter EXCEPT !.status = Some("Done")]
                         [] text = Str_Todo -> [d.filter EXCEPT !.status = Some("Todo")]
                         [] OTHER -> d.filter
         IN {Out([d EXCEPT !.filter = filter, !.tasklist = list], pop(UnitVal)) :
                list \in apply_filter(d.tasklist, d.data, filter)}

\* SetFilterState::on_enter
SetFilterState_on_enter(u, d, n) ==
    {Out(d, push(QuickSelectState(n + 1, <<<<"t", Str_Title>>, <<"d", Str_Todo>>,
                                           <<"D", Str_Done>>, <<"c", Str_Clear>>>>)))}

\* SetFilterTitleState::resume
SetFilterTitleState_resume(u, d, value, n) == {Out(d, pop(UnitVal))}

\* SetFilterTitleState::on_yield
SetFilterTitleState_on_yield(u, d, value, n) ==
    IF ~value.v.some THEN {Out(d, Nothing)}
    ELSE LET filter == [d.filter EXCEPT !.title = value.v.x]
         IN {Out([d EXCEPT !.filter = filter, !.tasklist = list], Nothing) :
                list \in apply_filter(d.tasklist, d.data, filter)}

\* SetFilterTitleState::on_enter
SetFilterTitleState_on_enter(u, d, n) == {Out(d, push(QuickInputState(n + 1, d.filter.title, TRUE)))}

\* SetPomodoroState::resume
SetPomodoroState_resume(u, d, value, n) ==
    IF ~value.v.some THEN {Out(d, pop(UnitVal))}
    ELSE LET text == value.v.x
             timer == CASE text = Str_Clear -> None
                        [] text = Str_Test -> Some("TEST")
                        [] text \in {Str_Break5, Str_Break10} -> Some("BREAK")
                        [] text = Str_Start -> Some("WORK")
                        [] OTHER -> d.timer
         IN {Out([d EXCEPT !.timer = timer, !.tasklist = list], pop(UnitVal)) :
                list \in apply_filter(d.tasklist, d.data, d.filter)}

\* SetPomodoroState::on_enter
SetPomodoroState_on_enter(u, d, n) ==
    {Out(d, push(QuickSelectState(n + 1, <<<<"p", Str_Start>>, <<"b", Str_Break5>>,
                                           <<"B", Str_Break10>>, <<"t", Str_Test>>,
                                           <<"c", Str_Clear>>>>)))}

\* `if let KeyCode::Char(c) .. input.text.push(c)`, `if key.code ==
\* KeyCode::Backspace .. input.text.pop()`: whether the text changed, and the text
Typing(key, text) ==
    CASE key.code = "Char" -> [send |-> TRUE, text |-> Append(text, key.c)]
      [] key.code = "Backspace" -> [send |-> TRUE, text |-> StrPop(text)]
      [] OTHER -> [send |-> FALSE, text |-> text]

\* SearchTaskState::act
SearchTaskState_act(u, d, key, n) ==
    IF ~d.quick_input.some \/ ~d.search.some THEN {Out(d, Panic(Unwrap))} ELSE
    LET typed == Typing(key, d.quick_input.x.text)
        d1 == [d EXCEPT !.quick_input.x.text = typed.text]
        ds == IF typed.send
              THEN LET filter == [d.search.x.filter EXCEPT !.title = typed.text]
                   IN {[d1 EXCEPT !.search.x = [filter |-> filter, list |-> list]] :
                          list \in apply_filter(d.search.x.list, d.data, filter)}
              ELSE {d1}
    IN
    CASE key.code = "Enter" -> {Out(d2, pop(OptTaskId(selection(d2.search.x.list)))) : d2 \in ds}
      [] key.code = "Up" -> {Out([d2 EXCEPT !.search.x.list = list_up(@)], Nothing) : d2 \in ds}
      [] key.code = "Down" -> {Out([d2 EXCEPT !.search.x.list = list_down(@)], Nothing) : d2 \in ds}
      [] key.code = "Esc" -> {Out(d2, pop(OptTaskId(0))) : d2 \in ds}
      [] OTHER -> {Out(d2, Nothing) : d2 \in ds}

\* SearchTaskState::on_enter
SearchTaskState_on_enter(u, d, n) ==
    {Out([d EXCEPT !.quick_input = Some([text |-> <<>>]),
                   !.search = Some([filter |-> FilterDefault, list |-> list])], Nothing) :
        list \in apply_filter(TaskListDefault, d.data, FilterDefault)}

\* SearchTaskState::on_exit
SearchTaskState_on_exit(u, d) == [d EXCEPT !.quick_input = None, !.search = None]

\* QuickInputState::act
QuickInputState_act(u, d, key, n) ==
    IF ~d.quick_input.some THEN {Out(d, Panic(Unwrap))} ELSE
    LET typed == Typing(key, d.quick_input.x.text)
        d1 == [d EXCEPT !.quick_input.x.text = typed.text]
    IN
    IF typed.send /\ u.p.continuous THEN {Out(d1, do_yield(OptString(Some(typed.text))))}
    ELSE IF key.code = "Enter" THEN {Out(d1, pop(OptString(Some(typed.text))))}
    ELSE IF key.code = "Esc" THEN {Out(d1, pop(OptString(None)))}
    ELSE {Out(d1, Nothing)}

\* The dialog replaces itself by a copy of itself, without end.
QuickInputState_on_enter_Again(u, d, n) ==
    {Out([d EXCEPT !.quick_input = Some([text |-> u.p.text])],
         replace(QuickInputState(n + 1, u.p.text, u.p.continuous)))}

\* QuickInputState::on_enter
QuickInputState_on_enter(u, d, n) == {Out([d EXCEPT !.quick_input = Some([text |-> u.p.text])], Nothing)}

\* The input overlay is left in the context.
QuickInputState_on_exit_Keep(u, d) == d

\* QuickInputState::on_exit
QuickInputState_on_exit(u, d) == [d EXCEPT !.quick_input = None]

\* QuickSelectState::act
QuickSelectState_act(u, d, key, n) ==
    IF ~d.quick_select.some THEN {Out(d, Panic(Unwrap))} ELSE
    LET choices == d.quick_select.x.choices
        found == {i \in 1..Len(choices) : key.code = "Char" /\ choices[i][1] = key.c}
    IN
    IF found # {}
    THEN {Out(d, pop(OptString(Some(choices[CHOOSE i \in found : \A j \in found : i <= j][2]))))}
    ELSE IF key.code = "Esc" THEN {Out(d, pop(OptString(None)))}
    ELSE {Out(d, Nothing)}

\* QuickSelectState::on_enter
QuickSelectState_on_enter(u, d, n) == {Out([d EXCEPT !.quick_select = Some([choices |-> u.p.choices])], Nothing)}

\* QuickSelectState::on_exit
QuickSelectState_on_exit(u, d) == [d EXCEPT !.quick_select = None]

\* State::act of the application's units, for one key
UnitAct(u, d, key, n) ==
    CASE u.kind = "NormalState" -> NormalState_act(u, d, key, n)
      [] u.kind = "OneTaskState" -> OneTaskState_act(u, d, key, n)
      [] u.kind = "SearchTaskState" -> SearchTaskState_act(u, d, key, n)
      [] u.kind = "QuickInputState" -> QuickInputState_act(u, d, key, n)
      [] u.kind = "QuickSelectState" -> QuickSelectState_act(u, d, key, n)
      [] OTHER -> Mediator_act(u, d, key, n)

\* The keys delivered to unit u: every key of AppKeys, except a character that
\* would make the text of an input dialog longer than MaxText.
KeysFor(u, d) ==
    {key \in AppKeys :
        (u.kind \in {"QuickInputState", "SearchTaskState"} /\ key.code = "Char" /\ d.quick_input.some)
            => Len(d.quick_input.x.text) < MaxText}

\* State::act of the application's units on Action::Key(key), for every key
AppAct(u, d, n) == UNION {UnitAct(u, d, key, n) : key \in KeysFor(u, d)}

\* State::resume of the application's units
AppResume(u, d, x, n) ==
    CASE u.kind = "AddLinkState" -> AddLinkState_resume(u, d, x, n)
      [] u.kind = "QuickCreateState" -> QuickCreateState_resume(u, d, x, n)
      [] u.kind = "SetDescriptionState" -> SetDescriptionState_resume(u, d, x, n)
      [] u.kind = "SetFilterState" -> SetFilterState_resume(u, d, x, n)
      [] u.kind = "SetFilterTitleState" -> SetFilterTitleState_resume(u, d, x, n)
      [] u.kind = "SetPomodoroState" -> SetPomodoroState_resume(u, d, x, n)
      [] OTHER -> {Out(d, Nothing)}

\* State::on_yield of the application's units
AppOnYield(u, d, x, n) ==
    CASE u.kind = "SetFilterTitleState" -> SetFilterTitleState_on_yield(u, d, x, n)
      [] OTHER -> {Out(d, Nothing)}

\* State::on_enter of the application's units
AppOnEnter(u, d, n) ==
    CASE u.kind = "NormalState" -> NormalState_on_enter(u, d, n)
      [] u.kind = "OneTaskState" -> OneTaskState_on_enter(u, d, n)
      [] u.kind = "AddLinkState" -> AddLinkState_on_enter(u, d, n)
      [] u.kind = "QuickCreateState" -> QuickCreateState_on_enter(u, d, n)
      [] u.kind = "SetDescriptionState" -> SetDescriptionState_on_enter(u, d, n)
      [] u.kind = "SetFilterState" -> SetFilterState_on_enter(u, d, n)
      [] u.kind = "SetFilterTitleState" -> SetFilterTitleState_on_enter(u, d, n)
      [] u.kind = "SetPomodoroState" -> SetPomodoroState_on_enter(u, d, n)
      [] u.kind = "SearchTaskState" -> SearchTaskState_on_enter(u, d, n)
      [] u.kind = "QuickInputState" -> QuickInputState_on_enter(u, d, n)
      [] u.kind = "QuickSelectState" -> QuickSelectState_on_enter(u, d, n)

\* State::on_exit of the application's units
AppOnExit(u, d) ==
    CASE u.kind = "SearchTaskState" -> SearchTaskState_on_exit(u, d)
      [] u.kind = "QuickInputState" -> QuickInputState_on_exit(u, d)
      [] u.kind = "QuickSelectState" -> QuickSelectState_on_exit(u, d)
      [] OTHER -> d

-----------------------------------------------------------------------------
(* The hooks of the units *)

\* State::act
ActHook(u, d, a, n) ==
    CASE u.kind = "Begin" ->
            {Out(d, IF a.tag = "Begin" THEN push(Unit(n + 1, "GetValue", 0)) ELSE Nothing)}
      [] u.kind = "GetValue" ->
            {Out(d, IF a.tag = "Set" THEN pop(Val("i32", a.v)) ELSE Nothing)}
      [] u.kind = "End" -> {Out(d, Nothing)}
      [] u.kind \in AppKinds -> AppAct(u, d, n)
      [] OTHER -> {Out(d, r) : r \in Declarable(u, n)}

\* State::resume
Resume(u, d, x, n) ==
    CASE u.kind = "Begin" -> {Out(d, transition(Unit(n + 1, "End", x.v)))}
      [] u.kind \in {"GetValue", "End"} -> {Out(d, Nothing)}
      [] u.kind \in AppKinds -> AppResume(u, d, x, n)
      [] OTHER -> {Out(d, r) : r \in Declarable(u, n)}

\* State::on_yield
OnYield(u, d, x, n) ==
    CASE u.kind \in TestKinds -> {Out(d, Nothing)}
      [] u.kind \in AppKinds -> AppOnYield(u, d, x, n)
      [] OTHER -> {Out(d, r) : r \in Declarable(u, n)}

\* State::on_enter
OnEnter(u, d, n) ==
    CASE u.kind = "End" -> {Out([d EXCEPT !.value = u.f], Nothing)}
      [] u.kind \in {"Begin", "GetValue"} -> {Out(d, Nothing)}
      [] u.kind \in AppKinds -> AppOnEnter(u, d, n)
      [] OTHER -> {Out(d, r) : r \in Declarable(u, n)}

\* State::on_exit
OnExit(u, d) == IF u.kind \in AppKinds THEN AppOnExit(u, d) ELSE d

-----------------------------------------------------------------------------
(* Bookkeeping of hook invocations *)

Call(h, u, x) == [hook |-> h, id |-> u.id, arg |-> x]

\* on_exit has run once more on u
Exit(b, u) == b (+) SetToBag({u.id})

\* next_id after a hook returned effect r
Alloc(r) == IF r.unit = NoUnit THEN next_id ELSE r.unit.id

-----------------------------------------------------------------------------
(* Machine *)

\* `for mut state in self.stack.drain(..).rev() { state.on_exit(data) }`:
\* the context after the loop, the on_exit calls it makes, and the exit counts.
RECURSIVE DrainRevData(_, _)
DrainRevData(stk, d) ==
    IF stk = <<>> THEN d ELSE DrainRevData(SubSeq(stk, 1, Len(stk) - 1), OnExit(stk[Len(stk)], d))

\* The loop without .rev(): oldest first.
DrainRevCalls_Forward(stk) == [i \in 1..Len(stk) |-> Call("on_exit", stk[i], NoVal)]

DrainRevCalls(stk) == [i \in 1..Len(stk) |-> Call("on_exit", stk[Len(stk) + 1 - i], NoVal)]

RECURSIVE DrainRevExited(_, _)
DrainRevExited(stk, b) ==
    IF stk = <<>> THEN b ELSE DrainRevExited(SubSeq(stk, 1, Len(stk) - 1), Exit(b, stk[Len(stk)]))

\* The suspended unit is lost instead of kept.
StackPush_Lost(stk, u) == stk
\* The suspended unit is stored twice.
StackPush_Twice(stk, u) == Append(Append(stk, u), u)

\* self.stack.push(old)
StackPush(stk, u) == Append(stk, u)

\* remove(0) in place of pop(): the oldest entry is taken.
StackTop_First(stk) == stk[1]
\* self.stack.pop(): the entry it returns, and the stack it leaves
StackTop(stk) == stk[Len(stk)]
\* last() in place of pop(): the entry stays on the stack.
StackPop_Keep(stk) == stk
\* The pop takes the entry below with it.
StackPop_Two(stk) == SubSeq(stk, 1, Len(stk) - 2)
StackPop(stk) == SubSeq(stk, 1, Len(stk) - 1)

\* The yield goes to the last entry whatever the frame index.
YieldTarget_Top(stk, pos) == stk[Len(stk)]
\* The yield goes to the oldest entry whatever the frame index.
YieldTarget_Bottom(stk, pos) == stk[1]
\* &mut self.stack[stack_pos - 1] (Rust indexes from 0, TLA+ from 1)
YieldTarget(stk, pos) == stk[pos]

\* The constructor calls on_enter on the root unit (and drops what it returns).
New_Enters(root) ==
    /\ state = root
    /\ stack = <<>>
    /\ data = [value |-> 0]
    /\ pc = "idle"
    /\ result = Nothing
    /\ stack_pos = 0
    /\ events = <<>>
    /\ next_id = 1
    /\ calls = <<Call("on_enter", root, NoVal)>>
    /\ exited = EmptyBag
    /\ overflow_checks = "any"

\* Machine::new(root)
New(root) ==
    /\ state = root
    /\ stack = <<>>
    /\ data = [value |-> 0]
    /\ pc = "idle"
    /\ result = Nothing
    /\ stack_pos = 0
    /\ events = <<>>
    /\ next_id = 1
    /\ calls = <<>>
    /\ exited = EmptyBag
    /\ overflow_checks = "any"

\* The event goes to the oldest suspended unit when there is one.
Act_Bottom(a, R) ==
    LET target == IF stack = <<>> THEN state ELSE stack[1] IN
    /\ pc = "idle"
    /\ \E out \in ActHook(target, data, a, next_id) :
        /\ out.result \in R
        /\ data' = out.data
        /\ result' = out.result
        /\ next_id' = Alloc(out.result)
    /\ stack_pos' = Len(stack)
    /\ pc' = "apply"
    /\ events' = Append(events, a)
    /\ calls' = <<Call("act", target, NoVal)>>
    /\ UNCHANGED <<state, stack, exited, overflow_checks>>

\* Machine::act: the active unit's act, then apply_result(result, stack.len()).
\* R: the effects the unit's hooks may declare under the model's bounds.
Act(a, R) ==
    /\ pc = "idle"
    /\ \E out \in ActHook(state, data, a, next_id) :
        /\ out.result \in R
        /\ data' = out.data
        /\ result' = out.result
        /\ next_id' = Alloc(out.result)
    /\ stack_pos' = Len(stack)
    /\ pc' = "apply"
    /\ events' = Append(events, a)
    /\ calls' = <<Call("act", state, NoVal)>>
    /\ UNCHANGED <<state, stack, exited, overflow_checks>>

\* The arm To without the drain: the stacked units are exited but stay.
ApplyTo_KeepStack(R) ==
    /\ pc = "apply"
    /\ result.tag = "To"
    /\ \E out \in OnEnter(result.unit, DrainRevData(stack, OnExit(state, data)), next_id) :
        /\ out.result \in R
        /\ data' = out.data
        /\ result' = out.result
        /\ next_id' = Alloc(out.result)
    /\ state' = result.unit
    /\ stack_pos' = 0
    /\ calls' = calls \o <<Call("on_exit", state, NoVal)>> \o DrainRevCalls(stack)
                      \o <<Call("on_enter", result.unit, NoVal)>>
    /\ exited' = DrainRevExited(stack, Exit(exited, state))
    /\ UNCHANGED <<stack, pc, events, overflow_checks>>

\* apply_result, arm To
ApplyTo(R) ==
    /\ pc = "apply"
    /\ result.tag = "To"
    /\ LET d1 == OnExit(state, data)
           d2 == DrainRevData(stack, d1)
       IN \E out \in OnEnter(result.unit, d2, next_id) :
            /\ out.result \in R
            /\ data' = out.data
            /\ result' = out.result
            /\ next_id' = Alloc(out.result)
    /\ state' = result.unit
    /\ stack' = <<>>
    /\ stack_pos' = 0
    /\ calls' = calls \o <<Call("on_exit", state, NoVal)>> \o DrainRevCalls(stack)
                      \o <<Call("on_enter", result.unit, NoVal)>>
    /\ exited' = DrainRevExited(stack, Exit(exited, state))
    /\ UNCHANGED <<pc, events, overflow_checks>>

\* The arm Replace recursing with the stack length as frame index, as Push does.
ApplyReplace_TopPos(R) ==
    /\ pc = "apply"
    /\ result.tag = "Replace"
    /\ \E out \in OnEnter(result.unit, OnExit(state, data), next_id) :
        /\ out.result \in R
        /\ data' = out.data
        /\ result' = out.result
        /\ next_id' = Alloc(out.result)
    /\ state' = result.unit
    /\ stack_pos' = Len(stack)
    /\ calls' = calls \o <<Call("on_exit", state, NoVal), Call("on_enter", result.unit, NoVal)>>
    /\ exited' = Exit(exited, state)
    /\ UNCHANGED <<stack, pc, events, overflow_checks>>

\* apply_result, arm Replace
ApplyReplace(R) ==
    /\ pc = "apply"
    /\ result.tag = "Replace"
    /\ \E out \in OnEnter(result.unit, OnExit(state, data), next_id) :
        /\ out.result \in R
        /\ data' = out.data
        /\ result' = out.result
        /\ next_id' = Alloc(out.result)
    /\ state' = result.unit
    /\ calls' = calls \o <<Call("on_exit", state, NoVal), Call("on_enter", result.unit, NoVal)>>
    /\ exited' = Exit(exited, state)
    /\ UNCHANGED <<stack, stack_pos, pc, events, overflow_checks>>

\* The arm Push installing the child without calling its on_enter.
ApplyPush_NoEnter(R) ==
    /\ pc = "apply"
    /\ result.tag = "Push"
    /\ state' = result.unit
    /\ stack' = StackPush(stack, state)
    /\ stack_pos' = Len(stack')
    /\ result' = Nothing
    /\ UNCHANGED <<data, next_id, calls, exited, pc, events, overflow_checks>>

\* The arm Push without its recursive call: what on_enter returned stays
\* uninterpreted and Machine::act returns.
ApplyPush_Stops(R) ==
    /\ pc = "apply"
    /\ result.tag = "Push"
    /\ \E out \in OnEnter(result.unit, data, next_id) :
        /\ out.result \in R
        /\ data' = out.data
        /\ result' = out.result
        /\ next_id' = Alloc(out.result)
    /\ state' = result.unit
    /\ stack' = StackPush(stack, state)
    /\ stack_pos' = Len(stack')
    /\ calls' = Append(calls, Call("on_enter", result.unit, NoVal))
    /\ pc' = "idle"
    /\ UNCHANGED <<exited, events, overflow_checks>>

\* The arm Push calling on_exit on the unit it suspends.
ApplyPush_Exits(R) ==
    /\ pc = "apply"
    /\ result.tag = "Push"
    /\ \E out \in OnEnter(result.unit, OnExit(state, data), next_id) :
        /\ out.result \in R
        /\ data' = out.data
        /\ result' = out.result
        /\ next_id' = Alloc(out.result)
    /\ state' = result.unit
    /\ stack' = StackPush(stack, state)
    /\ stack_pos' = Len(stack')
    /\ calls' = calls \o <<Call("on_exit", state, NoVal), Call("on_enter", result.unit, NoVal)>>
    /\ exited' = Exit(exited, state)
    /\ UNCHANGED <<pc, events, overflow_checks>>

\* apply_result, arm Push
ApplyPush(R) ==
    /\ pc = "apply"
    /\ result.tag = "Push"
    /\ \E out \in OnEnter(result.unit, data, next_id) :
        /\ out.result \in R
        /\ data' = out.data
        /\ result' = out.result
        /\ next_id' = Alloc(out.result)
    /\ state' = result.unit
    /\ stack' = StackPush(stack, state)
    /\ stack_pos' = Len(stack')
    /\ calls' = Append(calls, Call("on_enter", result.unit, NoVal))
    /\ UNCHANGED <<exited, pc, events, overflow_checks>>

\* The downcast always succeeds: the value is handed over whatever its type.
Downcast_Unchecked(x, u) == TRUE

\* value.downcast::<T::Input>() of ErasedState::resume / on_yield succeeds
Downcast(x, u) == x.ty = Input(u.kind)

\* The finish on an empty stack ends the cascade instead of failing.
ReturnOnEmpty_Quiet ==
    /\ pc' = "idle"
    /\ data' = OnExit(state, data)
    /\ calls' = Append(calls, Call("on_exit", state, NoVal))
    /\ UNCHANGED <<state, stack, result, stack_pos, next_id, overflow_checks>>

\* The pop is tried, and fails, before on_exit is called.
ReturnOnEmpty_Early ==
    /\ pc' = "panic: Returned on empty stack"
    /\ UNCHANGED <<state, stack, data, calls, result, stack_pos, next_id, overflow_checks>>

\* arm Return on an empty stack: self.stack.pop().expect(..) fails after
\* on_exit has run
ReturnOnEmpty ==
    /\ pc' = "panic: Returned on empty stack"
    /\ data' = OnExit(state, data)
    /\ calls' = Append(calls, Call("on_exit", state, NoVal))
    /\ UNCHANGED <<state, stack, result, stack_pos, next_id, overflow_checks>>

\* arm Return on a non-empty stack: pop, resume, recurse at stack_pos - 1
ReturnResume(R) ==
    LET top == StackTop(stack) IN
    /\ state' = top
    /\ stack' = StackPop(stack)
    /\ IF ~Downcast(result.value, top)
       THEN \* ErasedState::resume: the downcast fails before State::resume
            /\ pc' = "panic: State resumed with wrong input type"
            /\ data' = OnExit(state, data)
            /\ calls' = Append(calls, Call("on_exit", state, NoVal))
            /\ UNCHANGED <<result, stack_pos, next_id, overflow_checks>>
       ELSE \E out \in Resume(top, OnExit(state, data), result.value, next_id) :
            /\ out.result \in R
            /\ data' = out.data
            /\ next_id' = Alloc(out.result)
            /\ calls' = calls \o <<Call("on_exit", state, NoVal),
                                   Call("resume", top, result.value)>>
            /\ \* `stack_pos - 1` is evaluated after resume returned
               \/ /\ stack_pos = 0
                  /\ overflow_checks \in {"any", "on"}
                  /\ overflow_checks' = "on"
                  /\ pc' = "panic: attempt to subtract with overflow"
                  /\ UNCHANGED <<result, stack_pos>>
               \/ /\ stack_pos = 0 => overflow_checks \in {"any", "off"}
                  /\ overflow_checks' = IF stack_pos = 0 THEN "off" ELSE overflow_checks
                  /\ pc' = pc
                  /\ result' = out.result
                  /\ stack_pos' = stack_pos - 1

\* apply_result, arm Return
ApplyReturn(R) ==
    /\ pc = "apply"
    /\ result.tag = "Return"
    /\ exited' = Exit(exited, state)
    /\ UNCHANGED events
    /\ IF stack = <<>> THEN ReturnOnEmpty ELSE ReturnResume(R)

\* The yield at frame index 0 is dropped instead of failing.
YieldOnBottom_Quiet ==
    /\ pc' = "idle"
    /\ UNCHANGED <<data, result, stack_pos, next_id, calls>>

\* arm Yield at frame index 0: panic!("Yielded on bottom of stack")
YieldOnBottom ==
    /\ pc' = "panic: Yielded on bottom of stack"
    /\ UNCHANGED <<data, result, stack_pos, next_id, calls>>

\* apply_result, arm Yield.  A wrapped stack_pos (usize::MAX - k) is kept as
\* the negative number -(k + 1); indexing with it is out of bounds.
ApplyYield(R) ==
    /\ pc = "apply"
    /\ result.tag = "Yield"
    /\ UNCHANGED <<state, stack, events, exited, overflow_checks>>
    /\ IF stack_pos = 0
       THEN YieldOnBottom
       ELSE IF stack_pos - 1 \notin 0..(Len(stack) - 1)
       THEN /\ pc' = "panic: index out of bounds"
            /\ UNCHANGED <<data, result, stack_pos, next_id, calls>>
       ELSE LET target == YieldTarget(stack, stack_pos) IN
            IF ~Downcast(result.value, target)
            THEN /\ pc' = "panic: State yielded to with wrong input type"
                 /\ UNCHANGED <<data, result, stack_pos, next_id, calls>>
            ELSE \E out \in OnYield(target, data, result.value, next_id) :
                 /\ out.result \in R
                 /\ data' = out.data
                 /\ result' = out.result
                 /\ next_id' = Alloc(out.result)
                 /\ stack_pos' = stack_pos - 1
                 /\ calls' = Append(calls, Call("on_yield", target, result.value))
                 /\ pc' = pc

\* apply_result, arm Nothing: the cascade ends and Machine::act returns.
ApplyNothing ==
    /\ pc = "apply"
    /\ result.tag = "Nothing"
    /\ pc' = "idle"
    /\ UNCHANGED <<state, stack, data, result, stack_pos, events, next_id, calls, exited, overflow_checks>>

-----------------------------------------------------------------------------
(* Specifications *)

\* Effects whose unit, if any, is within the model's bound on instances.
Bounded == [tag : STRING, unit : [id : 0..MaxUnits, kind : STRING, f : Int],
            value : [ty : STRING, v : Int]]

\* The one action of the units that ignore it.
GenActions == {[tag |-> "Any", v |-> 0]}

\* enum Action of mod test
TestActions == {[tag |-> "Begin", v |-> 0]} \cup {[tag |-> "Set", v |-> x] : x \in 0..MaxTestVal}

\* No run is observed.
NoRun == [phase |-> "free", state |-> NoUnit, stack |-> <<>>, n |-> 0, k |-> 0]

\* Any root unit, any behaviour of its hooks.
Init == (\E k \in GenKinds : New(Unit(1, k, 0))) /\ run = NoRun

Next ==
    \/ (\E a \in GenActions : Len(events) < MaxSteps /\ Act(a, Bounded)) /\ UNCHANGED run
    \/ ApplyTo(Bounded) /\ UNCHANGED run
    \/ ApplyReplace(Bounded) /\ UNCHANGED run
    \/ ApplyPush(Bounded) /\ UNCHANGED run
    \/ ApplyReturn(Bounded) /\ UNCHANGED run
    \/ ApplyYield(Bounded) /\ UNCHANGED run
    \/ ApplyNothing /\ UNCHANGED run

Spec == Init /\ [][Next]_vars

\* test_machine: Machine::new(Begin) with Data { value: 0 }.
InitTest == New(Unit(1, "Begin", 0)) /\ run = NoRun

NextTest ==
    \/ (\E a \in TestActions : Len(events) < MaxTestSteps /\ Act(a, Bounded)) /\ UNCHANGED run
    \/ ApplyTo(Bounded) /\ UNCHANGED run
    \/ ApplyPush(Bounded) /\ UNCHANGED run
    \/ ApplyReturn(Bounded) /\ UNCHANGED run
    \/ ApplyNothing /\ UNCHANGED run

SpecTest == InitTest /\ [][NextTest]_vars

\* Pushes followed by finishes, from any configuration a short prefix reaches:
\* the active unit's act declares the pushes, then the finishes; on_enter of
\* the pushed units and resume of the resumed ones declare nothing.
AnyEffect == [tag : STRING, unit : [id : Nat, kind : STRING, f : Int],
              value : [ty : STRING, v : Int]]
PreBounded == {r \in AnyEffect : r.unit.id <= MaxPreUnits}
PushOnly == {r \in AnyEffect : r.tag = "Push"}
FinishOnly == {r \in AnyEffect : r.tag = "Return"}
Quiet == {Nothing}

Prefix ==
    /\ run.phase = "free"
    /\ \/ \E a \in GenActions : Len(events) < MaxPreSteps /\ Act(a, PreBounded)
       \/ ApplyTo(PreBounded)
       \/ ApplyReplace(PreBounded)
       \/ ApplyPush(PreBounded)
       \/ ApplyReturn(PreBounded)
       \/ ApplyYield(PreBounded)
       \/ ApplyNothing
    /\ UNCHANGED run

RunStart ==
    /\ run.phase = "free"
    /\ pc = "idle"
    /\ run' = [phase |-> "push", state |-> state, stack |-> stack, n |-> 0, k |-> 0]
    /\ UNCHANGED engine

RunPush ==
    /\ run.phase = "push"
    /\ run.n < MaxRun
    /\ \E a \in GenActions : Act(a, PushOnly)
    /\ run' = [run EXCEPT !.n = @ + 1]

RunFinish ==
    /\ run.phase \in {"push", "finish"}
    /\ run.k < run.n
    /\ \E a \in GenActions : Act(a, FinishOnly)
    /\ run' = [run EXCEPT !.phase = "finish", !.k = @ + 1]

RunApply ==
    /\ run.phase \in {"push", "finish"}
    /\ \/ ApplyPush(Quiet)
       \/ ApplyReturn(Quiet)
       \/ ApplyNothing
    /\ UNCHANGED run

NextConserve == Prefix \/ RunStart \/ RunPush \/ RunFinish \/ RunApply

SpecConserve == Init /\ [][NextConserve]_vars

\* A delegation, from any configuration a short prefix reaches: the active
\* unit A pushes B from act, B.on_enter pushes C, C.on_enter declares nothing
\* and Machine::act returns; at the next event C finishes from act and B's
\* resume declares whatever it likes.  run.n counts the stages.
DelStart ==
    /\ run.phase = "free"
    /\ pc = "idle"
    /\ run' = [phase |-> "delegate", state |-> state, stack |-> stack, n |-> 0, k |-> 0]
    /\ UNCHANGED engine

DelPush ==
    /\ run.phase = "delegate" /\ run.n = 0
    /\ \E a \in GenActions : Act(a, PushOnly)
    /\ run' = [run EXCEPT !.n = 1]

DelEnterB ==
    /\ run.phase = "delegate" /\ run.n = 1
    /\ ApplyPush(PushOnly)
    /\ run' = [run EXCEPT !.n = 2]

DelEnterC ==
    /\ run.phase = "delegate" /\ run.n = 2
    /\ ApplyPush(Quiet)
    /\ run' = [run EXCEPT !.n = 3]

DelEnd ==
    /\ run.phase = "delegate" /\ run.n = 3
    /\ ApplyNothing
    /\ run' = [run EXCEPT !.n = 4]

DelFinish ==
    /\ run.phase = "delegate" /\ run.n = 4
    /\ \E a \in GenActions : Act(a, FinishOnly)
    /\ run' = [run EXCEPT !.n = 5]

DelResume ==
    /\ run.phase = "delegate" /\ run.n = 5
    /\ ApplyReturn(AnyEffect)
    /\ run' = [run EXCEPT !.n = 6]

NextDelegate ==
    Prefix \/ DelStart \/ DelPush \/ DelEnterB \/ DelEnterC \/ DelEnd \/ DelFinish \/ DelResume

SpecDelegate == Init /\ [][NextDelegate]_vars

\* The task application (event_loop): Machine::new(NormalState) with
\* Tasker::default(), fed key events.
InitApp ==
    /\ state = AppUnit(1, "NormalState", 0, NoParams)
    /\ stack = <<>>
    /\ data = TaskerDefault
    /\ pc = "idle"
    /\ result = Nothing
    /\ stack_pos = 0
    /\ events = <<>>
    /\ next_id = 1
    /\ calls = <<>>
    /\ exited = EmptyBag
    /\ overflow_checks = "any"
    /\ run = NoRun

\* Action::Key(key); the key is drawn where the unit's act reads it (AppAct).
AppActions == {[tag |-> "Key", v |-> 0]}

\* The effects a hook call can return: no bound on them.
Results(outs) == {o.result : o \in outs}

NextApp ==
    \/ /\ Len(events) < MaxAppSteps
       /\ \E a \in AppActions : Act(a, Results(ActHook(state, data, a, next_id)))
       /\ UNCHANGED run
    \/ ApplyTo(Results(OnEnter(result.unit, DrainRevData(stack, OnExit(state, data)), next_id)))
            /\ UNCHANGED run
    \/ ApplyReplace(Results(OnEnter(result.unit, OnExit(state, data), next_id))) /\ UNCHANGED run
    \/ ApplyPush(Results(OnEnter(result.unit, data, next_id))) /\ UNCHANGED run
    \/ ApplyReturn(Results(Resume(StackTop(stack), OnExit(state, data), result.value, next_id)))
            /\ UNCHANGED run
    \/ ApplyYield(Results(OnYield(YieldTarget(stack, stack_pos), data, result.value, next_id)))
            /\ UNCHANGED run
    \/ ApplyNothing /\ UNCHANGED run

SpecApp == InitApp /\ [][NextApp]_vars

-----------------------------------------------------------------------------
(* Vocabulary of the properties *)

\* The engine failed fatally.
Panicked == pc \notin {"idle", "apply"}

\* Effect t is about to be interpreted by apply_result.
Interp(t) == pc = "apply" /\ result.tag = t

\* The hook invocations the step being taken adds to those of the cascade.
NewCalls == SubSeq(calls', Len(calls) + 1, Len(calls'))

Kinds(stk) == [i \in 1..Len(stk) |-> stk[i].kind]

ActBegin == [tag |-> "Begin", v |-> 0]
ActSet(x) == [tag |-> "Set", v |-> x]

-----------------------------------------------------------------------------
(* Properties *)

\* C1: the unit test's machine never fails; once act(Begin) has returned the
\* active unit is GetValue above the suspended Begin; once act(Begin) and then
\* act(Set(v)) have returned the active unit is End(v), the stack is empty and
\* the context's value is v, for every v.
C1_RoundTrip ==
    /\ ~Panicked
    /\ (pc = "idle" /\ events = <<ActBegin>>) =>
            /\ state.kind = "GetValue"
            /\ Kinds(stack) = <<"Begin">>
    /\ \A x \in 0..MaxTestVal :
         (pc = "idle" /\ events = <<ActBegin, ActSet(x)>>) =>
            /\ state.kind = "End" /\ state.f = x
            /\ stack = <<>>
            /\ data.value = x

C1_Witness ==
    /\ pc = "idle"
    /\ events = <<ActBegin, ActSet(2)>>
    /\ state.kind = "End"
    /\ data.value = 2

\* C2: a finish interpreted with a non-empty stack calls on_exit on the active
\* unit first, removes the last stack entry (the others keep their places) and
\* makes it active, then calls its resume (no on_enter) with the carried value,
\* and the effect resume returned is the next one interpreted.
C2_Finish ==
    [][(Interp("Return") /\ stack # <<>>) =>
        LET top == stack[Len(stack)] IN
        /\ state' = top
        /\ stack' = SubSeq(stack, 1, Len(stack) - 1)
        /\ NewCalls[1] = Call("on_exit", state, NoVal)
        /\ result.value.ty = Input(top.kind) =>
            /\ NewCalls = <<Call("on_exit", state, NoVal), Call("resume", top, result.value)>>
            /\ pc' = "apply"
            /\ result' \in {o.result : o \in Resume(top, data, result.value, next_id)}
            /\ stack_pos' = stack_pos - 1
      ]_vars

\* C3: a push appends the active unit to the stack without calling its on_exit,
\* makes the pushed unit active, calls its on_enter as the next and only hook,
\* and interprets what on_enter returned at frame index = new stack length.
C3_Push ==
    [][Interp("Push") =>
        /\ stack' = Append(stack, state)
        /\ exited' = exited
        /\ state' = result.unit
        /\ NewCalls = <<Call("on_enter", result.unit, NoVal)>>
        /\ pc' = "apply"
        /\ stack_pos' = Len(stack) + 1
      ]_vars

C3_Witness ==
    /\ Len(calls) = 2
    /\ calls[1].hook = "act"
    /\ calls[2] = Call("on_enter", state, NoVal)
    /\ Len(stack) = 1
    /\ stack[1].id = calls[1].id
    /\ BagToSet(exited) = {}
    /\ stack_pos = 1

\* C4: whatever the stack depth when a full reset is interpreted, the stack is
\* empty and the new unit is active when its on_enter runs and afterwards.
C4_FullReset ==
    [][Interp("To") =>
        /\ stack' = <<>>
        /\ state' = result.unit
        /\ calls'[Len(calls')] = Call("on_enter", result.unit, NoVal)
        /\ stack_pos' = 0
      ]_vars

\* A full reset was interpreted at depth 2.
C4_Witness ==
    /\ stack = <<>>
    /\ Len(calls) >= 4
    /\ calls[Len(calls)] = Call("on_enter", state, NoVal)
    /\ \A i \in 1..3 : calls[Len(calls) - i].hook = "on_exit"

\* C5: a full reset calls on_exit once on the active unit, then once on each
\* stacked unit from the most recent to the oldest, and only then on_enter on
\* the new unit.
C5_ResetOrder ==
    [][Interp("To") =>
        LET d == Len(stack) IN
        /\ Len(NewCalls) = d + 2
        /\ NewCalls[1] = Call("on_exit", state, NoVal)
        /\ \A i \in 1..d : NewCalls[1 + i] = Call("on_exit", stack[d + 1 - i], NoVal)
        /\ NewCalls[d + 2] = Call("on_enter", result.unit, NoVal)
        /\ \A i \in 1..d : CopiesIn(stack[i].id, exited') = CopiesIn(stack[i].id, exited) + 1
        /\ CopiesIn(state.id, exited') = CopiesIn(state.id, exited) + 1
      ]_vars

\* A full reset at depth 2 exited units 3, 2, 1 in this order.
C5_Witness ==
    /\ stack = <<>>
    /\ Len(calls) = 7
    /\ [i \in 1..4 |-> calls[3 + i]]
         = <<Call("on_exit", Unit(3, "UU", 0), NoVal), Call("on_exit", Unit(2, "UU", 0), NoVal),
             Call("on_exit", Unit(1, "UU", 0), NoVal), Call("on_enter", state, NoVal)>>

\* C6: a replace leaves the stack as it is; the old active unit gets on_exit,
\* the new unit is installed and gets on_enter, and the frame index is kept.
C6_Replace ==
    [][Interp("Replace") =>
        /\ stack' = stack
        /\ state' = result.unit
        /\ NewCalls = <<Call("on_exit", state, NoVal), Call("on_enter", result.unit, NoVal)>>
        /\ pc' = "apply"
        /\ stack_pos' = stack_pos
      ]_vars

\* A replace was interpreted above two suspended units.
C6_Witness ==
    /\ Len(stack) = 2
    /\ Len(calls) >= 2
    /\ calls[Len(calls)] = Call("on_enter", state, NoVal)
    /\ calls[Len(calls) - 1].hook = "on_exit"
    /\ stack_pos = 2

\* C7: a yield changes neither the stack nor the active unit and calls no
\* on_exit, on_enter or resume: it fails, or it calls on_yield, with the carried
\* value, on the stack entry at frame index - 1.
C7_Yield ==
    [][Interp("Yield") =>
        /\ state' = state
        /\ stack' = stack
        /\ exited' = exited
        /\ \/ NewCalls = <<>> /\ Panicked'
           \/ /\ stack_pos \in 1..Len(stack)
              /\ NewCalls = <<Call("on_yield", stack[stack_pos], result.value)>>
              /\ pc' = "apply"
      ]_vars

\* A yield was delivered to the parent of the active unit.
C7_Witness ==
    /\ pc = "apply"
    /\ Len(stack) = 1
    /\ calls[Len(calls)].hook = "on_yield"
    /\ calls[Len(calls)].id = stack[1].id
    /\ calls[Len(calls)].arg.ty = "i32"

\* C8: a yield the active unit declares at frame index k = stack length is
\* delivered to stack entry k-1, its parent; a yield declared by the on_yield of
\* stack entry i is delivered to stack entry i-1.  (Entries counted from 0.)
C8_YieldTarget ==
    [][(Interp("Yield") /\ ~Panicked') =>
        LET by == calls[Len(calls)]
            to == calls'[Len(calls')]
        IN
        /\ to.hook = "on_yield" /\ to.arg = result.value
        /\ (by.hook \in {"act", "on_enter", "resume"} /\ stack_pos = Len(stack)) =>
              /\ by.id = state.id
              /\ to.id = stack[Len(stack)].id
        /\ by.hook = "on_yield" =>
              \E i \in 2..Len(stack) : by.id = stack[i].id /\ to.id = stack[i - 1].id
      ]_vars

\* Two yields in a row: to entry 1 (the parent), then to entry 0.
C8_Witness ==
    /\ Len(stack) = 2
    /\ Len(calls) >= 3
    /\ calls[Len(calls)] .hook = "on_yield" /\ calls[Len(calls)].id = stack[1].id
    /\ calls[Len(calls) - 1].hook = "on_yield" /\ calls[Len(calls) - 1].id = stack[2].id
    /\ calls[Len(calls) - 2].id = state.id

\* C9: a run of n >= 1 pushes followed by n finishes, the pushed units'
\* on_enter and the resumed units' resume declaring nothing, does not fail and
\* ends with the active unit and the stack it began with.
C9_Conservation ==
    /\ run.phase # "free" => ~Panicked
    /\ (run.phase = "finish" /\ run.k = run.n /\ pc = "idle") =>
            /\ state = run.state
            /\ stack = run.stack

\* Two pushes and two finishes above a stack of depth 2 are over.
C9_Witness ==
    /\ run.phase = "finish" /\ run.n = 2 /\ run.k = 2
    /\ pc = "idle"
    /\ Len(run.stack) = 2
    /\ state = run.state

\* The units the machine holds.
Live == {state.id} \cup {stack[i].id : i \in 1..Len(stack)}

\* C10: no unit's on_exit runs twice; while the engine has not failed, a unit
\* it holds (active or suspended) has not had on_exit and a unit it has dropped
\* has had it exactly once; to/replace/finish call on_exit on the unit that
\* stops being active, push calls none.
C10_Always ==
    /\ \A i \in 1..next_id : CopiesIn(i, exited) <= 1
    /\ ~Panicked =>
        \A i \in 1..next_id :
            \/ i \in Live /\ CopiesIn(i, exited) = 0
            \/ i \notin Live /\ i = result.unit.id /\ CopiesIn(i, exited) = 0
            \/ i \notin Live /\ i # result.unit.id /\ CopiesIn(i, exited) = 1

C10_Step ==
    /\ Interp("Push") => exited' = exited
    /\ (Interp("To") \/ Interp("Replace") \/ Interp("Return")) =>
            CopiesIn(state.id, exited') = 1

C10_Pairing == [](C10_Always) /\ [][C10_Step]_vars

\* Unit 2 was suspended by a push without on_exit and later got it once, when
\* its child finished and it was replaced.
C10_Witness ==
    /\ CopiesIn(2, exited) = 1
    /\ CopiesIn(3, exited) = 1
    /\ CopiesIn(1, exited) = 0
    /\ Len(stack) = 1 /\ stack[1].id = 1
    /\ state.id = 4

\* C11: a finish interpreted while the stack is empty makes the engine fail
\* ("Returned on empty stack"), and a failed engine never runs on: Machine::act
\* does not return.
C11_PopOnEmpty ==
    [][/\ (Interp("Return") /\ stack = <<>>) => pc' = "panic: Returned on empty stack"
       /\ Panicked => Panicked'
      ]_vars

\* A unit installed by a full reset finished from its on_enter.
C11_Witness ==
    /\ pc = "panic: Returned on empty stack"
    /\ stack = <<>>
    /\ state.id > 1
    /\ Len(calls) >= 2
    /\ calls[Len(calls) - 1] = Call("on_enter", state, NoVal)
    /\ calls[Len(calls)] = Call("on_exit", state, NoVal)

\* C12: a yield interpreted at frame index 0 makes the engine fail without
\* calling any hook; the active unit, the stack and the context stay as they
\* were.
C12_SignalOnEmpty ==
    [][(Interp("Yield") /\ stack_pos = 0) =>
        /\ pc' = "panic: Yielded on bottom of stack"
        /\ NewCalls = <<>>
        /\ state' = state
        /\ stack' = stack
        /\ data' = data
        /\ exited' = exited
      ]_vars

\* The root unit yielded from act.
C12_Witness ==
    /\ pc = "panic: Yielded on bottom of stack"
    /\ stack = <<>>
    /\ calls = <<Call("act", state, NoVal)>>
    /\ result.tag = "Yield"

\* C13: when the value a finish or a yield carries is not of the receiving
\* unit's Input type the engine fails at the delivery and the unit's resume /
\* on_yield is not run (no call, context and pending effect untouched); when it
\* is, the hook is called with exactly that value.
C13_Delivery ==
    [][/\ (Interp("Return") /\ stack # <<>>) =>
            LET top == stack[Len(stack)] IN
            IF result.value.ty # Input(top.kind)
            THEN /\ pc' = "panic: State resumed with wrong input type"
                 /\ \A i \in 1..Len(NewCalls) : NewCalls[i].hook # "resume"
                 /\ data' = data /\ result' = result /\ next_id' = next_id
            ELSE NewCalls[Len(NewCalls)] = Call("resume", top, result.value)
       /\ (Interp("Yield") /\ stack_pos \in 1..Len(stack)) =>
            LET target == stack[stack_pos] IN
            IF result.value.ty # Input(target.kind)
            THEN /\ pc' = "panic: State yielded to with wrong input type"
                 /\ NewCalls = <<>>
                 /\ data' = data /\ result' = result /\ next_id' = next_id
            ELSE NewCalls = <<Call("on_yield", target, result.value)>>
      ]_vars

\* A value of the wrong type reached the resume of the unit on top of the stack.
C13_Witness ==
    /\ pc = "panic: State resumed with wrong input type"
    /\ result.tag = "Return"
    /\ result.value.ty # Input(state.kind)
    /\ calls[Len(calls)].hook = "on_exit"

\* C14: units declaring effects only through the typed constructors, no value
\* of a type other than the receiving unit's Input is ever delivered: the
\* engine never fails on a downcast in resume or on_yield.
C14_WellTyped ==
    /\ pc # "panic: State resumed with wrong input type"
    /\ pc # "panic: State yielded to with wrong input type"
    /\ (Interp("Return") /\ stack # <<>>) => result.value.ty = Input(stack[Len(stack)].kind)
    /\ (Interp("Yield") /\ stack_pos \in 1..Len(stack)) =>
            result.value.ty = Input(stack[stack_pos].kind)

\* C15: whenever a replace, push or finish effect is interpreted, the frame
\* index is the stack length and the unit whose hook declared the effect is the
\* active unit.
C15_ActiveFrame ==
    (pc = "apply" /\ result.tag \in {"Replace", "Push", "Return"}) =>
        /\ stack_pos = Len(stack)
        /\ calls[Len(calls)].id = state.id

\* The unit instances on the stack.
Stacked == {stack[i].id : i \in 1..Len(stack)}

\* C16: in every configuration the active unit is not an entry of the stack
\* and no unit instance occurs twice in the stack.
C16_Exclusive ==
    /\ state.id \notin Stacked
    /\ \A i, j \in 1..Len(stack) : i # j => stack[i].id # stack[j].id

\* Two units are suspended below a unit pushed after a finish.
C16_Witness ==
    /\ pc = "idle"
    /\ Len(stack) = 2
    /\ BagToSet(exited) # {}
    /\ calls[Len(calls)] = Call("on_enter", state, NoVal)

\* C17 as stated: a step that changes the depth of the stack appends one entry
\* to it or removes its last entry.
C17_PushPopOnly ==
    [][Len(stack') # Len(stack) =>
        \/ Len(stack') = Len(stack) + 1 /\ SubSeq(stack', 1, Len(stack)) = stack
        \/ stack # <<>> /\ stack' = SubSeq(stack, 1, Len(stack) - 1)
      ]_vars

\* C17, amended: a step that changes the depth of the stack is a push
\* appending the active unit, a finish removing the last entry, or a full reset
\* removing every entry; any other step leaves the stack as it is.
C17_Depth ==
    [][IF Len(stack') # Len(stack)
       THEN \/ Interp("Push") /\ stack' = Append(stack, state)
            \/ Interp("Return") /\ stack # <<>> /\ stack' = SubSeq(stack, 1, Len(stack) - 1)
            \/ Interp("To") /\ stack' = <<>>
       ELSE stack' = stack
      ]_vars

\* The depth went 0, 1, 2 by two pushes and back to 0 by one full reset.
C17_Witness ==
    /\ pc = "idle"
    /\ stack = <<>>
    /\ Len(calls) = 7
    /\ calls[2].hook = "on_enter" /\ calls[3].hook = "on_enter"
    /\ \A i \in 4..6 : calls[i].hook = "on_exit"
    /\ calls[7] = Call("on_enter", state, NoVal)

\* C18: Machine::act calls act once, on the unit that is active when the call
\* begins, which is not an entry of the stack; the cascade that follows calls
\* no act.
C18_ActOnce ==
    [][/\ (pc = "idle" /\ pc' # "idle") =>
            /\ calls' = <<Call("act", state, NoVal)>>
            /\ state.id \notin Stacked
       /\ pc = "apply" =>
            /\ calls[1].hook = "act"
            /\ \A i \in 1..Len(NewCalls) : NewCalls[i].hook # "act"
      ]_vars

\* The second event went to the unit active above two suspended ones.
C18_Witness ==
    /\ pc = "apply"
    /\ Len(events) = 2
    /\ Len(stack) = 2
    /\ calls = <<Call("act", state, NoVal)>>

\* The step installs an active unit and the engine has not failed in it.
Installs == (Interp("To") \/ Interp("Replace") \/ Interp("Push") \/ (Interp("Return") /\ stack # <<>>))
            /\ ~Panicked'

\* The hooks the step calls are on_exit calls followed by hook h on the unit
\* that is active after it.
ThenHook(h) ==
    /\ NewCalls # <<>>
    /\ NewCalls[Len(NewCalls)].hook = h
    /\ NewCalls[Len(NewCalls)].id = state'.id
    /\ \A i \in 1..(Len(NewCalls) - 1) : NewCalls[i].hook = "on_exit"

\* C19 as stated: after each of the four installing effects (full reset,
\* replace, push, finish reactivating the parent) the first hook called on the
\* installed unit is its on_enter.
C19_EnterAll == [][Installs => ThenHook("on_enter")]_vars

\* C19, amended: after a full reset, a replace or a push the first hook called
\* after the installation is the installed unit's on_enter; after a finish the
\* reactivated parent gets resume with the carried value and no on_enter.
C19_Enter ==
    [][Installs =>
        IF Interp("Return")
        THEN /\ ThenHook("resume")
             /\ NewCalls[Len(NewCalls)].arg = result.value
             /\ state' = stack[Len(stack)]
        ELSE /\ ThenHook("on_enter")
             /\ state' = result.unit
      ]_vars

\* A pushed unit got on_enter, finished, and its parent got resume, not on_enter.
C19_Witness ==
    /\ pc = "apply"
    /\ Len(calls) = 4
    /\ calls[1] = Call("act", state, NoVal)
    /\ calls[2].hook = "on_enter" /\ calls[2].id # state.id
    /\ calls[3] = [calls[2] EXCEPT !.hook = "on_exit"]
    /\ calls[4].hook = "resume" /\ calls[4].id = state.id

\* C20: no hook is called on a unit whose on_exit has run, on_exit included;
\* the engine, unless it failed, holds that unit no more; and the effect being
\* interpreted was never returned by an on_exit.
C20_ExitLast ==
    [][/\ pc = "apply" =>
            \A i \in 1..Len(NewCalls) :
                /\ CopiesIn(NewCalls[i].id, exited) = 0
                /\ \A j \in 1..(i - 1) :
                     ~(NewCalls[j].id = NewCalls[i].id /\ NewCalls[j].hook = "on_exit")
       /\ (pc = "idle" /\ pc' # "idle") => CopiesIn(calls'[1].id, exited) = 0
       /\ ~Panicked' => \A i \in 1..next_id' : CopiesIn(i, exited') > 0 => i \notin ({state'.id} \cup {stack'[k].id : k \in 1..Len(stack')})
       /\ pc' = "apply" => calls'[Len(calls')].hook \in {"act", "on_enter", "resume", "on_yield"}
      ]_vars

\* Unit 2 got on_exit when it finished; the cascade went on with hooks of
\* other units only.
C20_Witness ==
    /\ CopiesIn(2, exited) = 1
    /\ \E i \in 1..Len(calls) :
        /\ calls[i] = Call("on_exit", Unit(2, "UU", 0), NoVal)
        /\ Len(calls) >= i + 2
        /\ \A j \in (i + 1)..Len(calls) : calls[j].id # 2

\* C22: Machine::act runs the cascade to its end: while an effect is pending
\* no event is accepted and no act is called, every step of the cascade
\* interprets the effect the last hook call returned, and Machine::act returns
\* only when a hook has returned Nothing.
C22_Cascade ==
    [][/\ pc = "apply" =>
            /\ events' = events
            /\ \A i \in 1..Len(NewCalls) : NewCalls[i].hook # "act"
            /\ result.tag # "Nothing" => pc' # "idle"
            /\ result.tag = "Nothing" => pc' = "idle"
       /\ pc' = "idle" => result'.tag = "Nothing"
       /\ (pc = "idle" /\ pc' # "idle") => Len(events') = Len(events) + 1
      ]_vars

\* A cascade of five hook calls (act, on_enter, on_yield, ...) has ended.
C22_Witness ==
    /\ pc = "idle"
    /\ Len(events) = 1
    /\ Len(calls) >= 5
    /\ \E i \in 1..Len(calls) : calls[i].hook = "on_yield"

\* C24: Machine::new(u) gives active = u above an empty stack and calls no
\* hook; the root unit never gets on_enter, also when it gets on_exit.
C24_Initial ==
    /\ events = <<>> =>
            /\ pc = "idle"
            /\ state.id = 1
            /\ stack = <<>>
            /\ calls = <<>>
            /\ exited = EmptyBag
    /\ \A i \in 1..Len(calls) : calls[i].hook = "on_enter" => calls[i].id # 1

\* The root unit got on_exit in a cascade that called no on_enter on it.
C24_Witness ==
    /\ pc = "idle"
    /\ CopiesIn(1, exited) = 1
    /\ \E i \in 1..Len(calls) : calls[i] = [hook |-> "on_exit", id |-> 1, arg |-> NoVal]

\* C26: whenever an effect is interpreted the frame index is at most the stack
\* length (a wrapped index, kept as a negative number, is above it); it is the
\* stack length at the start of the cascade and after a push or a full reset,
\* and below it only after a yield of the same cascade.
C26_FrameIndex ==
    pc = "apply" =>
        /\ stack_pos \in 0..Len(stack)
        /\ calls[Len(calls)].hook = "act" => stack_pos = Len(stack)
        /\ stack_pos < Len(stack) => \E i \in 1..Len(calls) : calls[i].hook = "on_yield"

\* C27: a finish interpreted above a non-empty stack finds a frame index of at
\* least 1, and the engine never fails computing `frame index - 1`.
C27_NoUnderflow ==
    /\ (Interp("Return") /\ stack # <<>>) => stack_pos >= 1
    /\ pc # "panic: attempt to subtract with overflow"

\* C28: when a finish is interpreted on an empty stack the one hook called is
\* the active unit's on_exit, before the failure: the context is as on_exit
\* left it, no resume is called and the active slot keeps the exited unit.
C28_PopOnEmptyState ==
    [][(Interp("Return") /\ stack = <<>>) =>
        /\ Panicked'
        /\ NewCalls = <<Call("on_exit", state, NoVal)>>
        /\ CopiesIn(state.id, exited') = CopiesIn(state.id, exited) + 1
        /\ data' = OnExit(state, data)
        /\ state' = state
        /\ stack' = <<>>
      ]_vars

\* The root unit finished from act: it got on_exit and is still in place.
C28_Witness ==
    /\ pc = "panic: Returned on empty stack"
    /\ calls = <<Call("act", state, NoVal), Call("on_exit", state, NoVal)>>
    /\ CopiesIn(state.id, exited) = 1
    /\ state.id = 1

\* C21: A, active above stack S, pushes B; B.on_enter pushes C; C.on_enter
\* declares nothing.  When that one Machine::act returns, C is active above
\* S ++ [A, B], the hooks called were A.act, B.on_enter, C.on_enter (no on_exit,
\* no B.act), and neither A nor B has had on_exit.  When C then finishes, B is
\* active above S ++ [A] and B's resume got the value C returned.
C21_Delegation ==
    run.phase = "delegate" =>
        LET d == Len(run.stack) IN
        /\ ~Panicked
        /\ run.n \in {3, 4} =>
            /\ Len(stack) = d + 2
            /\ SubSeq(stack, 1, d) = run.stack
            /\ stack[d + 1] = run.state
            /\ calls = <<Call("act", run.state, NoVal), Call("on_enter", stack[d + 2], NoVal),
                         Call("on_enter", state, NoVal)>>
            /\ state.id \notin {run.state.id, stack[d + 2].id}
            /\ CopiesIn(run.state.id, exited) = 0
            /\ CopiesIn(stack[d + 2].id, exited) = 0
        /\ run.n = 6 =>
            /\ stack = Append(run.stack, run.state)
            /\ Len(calls) = 3
            /\ calls[1].hook = "act" /\ calls[1].id = state.id + 1
            /\ calls[2] = [calls[1] EXCEPT !.hook = "on_exit"]
            /\ calls[3].hook = "resume" /\ calls[3].id = state.id
            /\ calls[3].arg.ty = Input(state.kind)
            /\ CopiesIn(state.id, exited) = 0

\* The delegation began above one suspended unit and C's finish has resumed B.
C21_Witness ==
    /\ run.phase = "delegate" /\ run.n = 6
    /\ Len(run.stack) = 1
    /\ Len(stack) = 2
    /\ calls[3] = Call("resume", state, Val("i32", 0))

\* The TaskIds a sequence lists
SeqIds(s) == {s[i] : i \in 1..Len(s)}

\* The TaskId a unit holds (OneTaskState.0, AddLinkState.0, SetDescriptionState.0,
\* SetPomodoroState.0)
UnitIds(u) ==
    IF u.kind \in {"OneTaskState", "AddLinkState", "SetDescriptionState", "SetPomodoroState"}
    THEN {u.f} ELSE {}

\* Every TaskId held by the application: the main task list, the search list,
\* the links of the tasks, the task view, the units of the machine and an
\* Option<TaskId> on its way to a resume.
HeldIds ==
    LET tasks == data.data.store.tasks IN
    SeqIds(data.tasklist.tasks)
    \cup (IF data.search.some THEN SeqIds(data.search.x.list.tasks) ELSE {})
    \cup UNION {SeqIds(tasks[i].links) : i \in DOMAIN tasks}
    \cup (IF data.pane.tag = "OneTask"
          THEN {data.pane.view.task_id} \cup SeqIds(data.pane.view.link_list.tasks) ELSE {})
    \cup UnitIds(state) \cup UNION {UnitIds(stack[i]) : i \in 1..Len(stack)}
    \cup UnitIds(result.unit)
    \cup (IF result.value.ty = "Option<TaskId>" /\ result.value.v # 0 THEN {result.value.v} ELSE {})

\* C25: in every reachable state of the application every TaskId held anywhere
\* is the key (and the id) of a task in the store, no hook has failed with
\* "Task doesn't exist", and the id new_task would hand out next is not the id
\* of a task in the store.
C25_Valid ==
    /\ HeldIds \subseteq DOMAIN data.data.store.tasks
    /\ \A i \in DOMAIN data.data.store.tasks : data.data.store.tasks[i].id = i
    /\ ~(result.tag = "Panic" /\ result.value.ty = NoTask)
    /\ new_task(data.data.store).id \notin DOMAIN data.data.store.tasks

\* Two tasks were created, one is shown in the task view and was linked to a
\* task picked in the search dialog.
C25_Witness ==
    /\ pc = "idle"
    /\ state.kind = "OneTaskState"
    /\ Cardinality(DOMAIN data.data.store.tasks) = 2
    /\ data.pane.tag = "OneTask"
    /\ data.pane.view.link_list.tasks # <<>>
    /\ \E i \in DOMAIN data.data.store.tasks : data.data.store.tasks[i].links # <<>>

\* The two shapes of the application's configuration between key events
AppShape ==
    \/ /\ state.kind \in BaseKinds
       /\ stack = <<>>
    \/ /\ state.kind \in DialogKinds
       /\ Len(stack) = 2
       /\ stack[1].kind \in BaseKinds
       /\ stack[2].kind \in MediatorKinds

\* C29: whenever the application's machine waits for the next key, either a
\* base unit (NormalState, OneTaskState) is active above an empty stack, or a
\* dialog unit (QuickInputState, QuickSelectState, SearchTaskState) is active
\* above [base, mediator]; and the act of a mediator is never invoked (the unit
\* whose act has just been called is no mediator, and no hook fails with
\* "shouldn't receive actions").
C29_Shape ==
    /\ pc = "idle" => AppShape
    /\ calls = <<Call("act", state, NoVal)>> => state.kind \notin MediatorKinds
    /\ ~(result.tag = "Panic" /\ result.value.ty = "shouldn't receive actions")

\* The title filter is being typed: the continuous input dialog is active above
\* [NormalState, SetFilterTitleState], which replaced SetFilterState.
C29_Witness ==
    /\ pc = "idle"
    /\ state.kind = "QuickInputState"
    /\ state.p.continuous
    /\ Kinds(stack) = <<"NormalState", "SetFilterTitleState">>
    /\ Len(events) >= 3

\* C30: the application never reaches an engine failure: the cascade never
\* stops in a panic of the engine, a finish is interpreted only above a
\* non-empty stack and carries the Input type of the unit it resumes, and a
\* yield is interpreted only at a frame index >= 1 within the stack and carries
\* the Input type of the unit it is delivered to.
C30_NoFatal ==
    /\ ~Panicked
    /\ Interp("Return") =>
          /\ stack # <<>>
          /\ Downcast(result.value, StackTop(stack))
    /\ Interp("Yield") =>
          /\ stack_pos >= 1
          /\ stack_pos <= Len(stack)
          /\ Downcast(result.value, YieldTarget(stack, stack_pos))

\* A character typed into the continuous input dialog is about to be yielded to
\* SetFilterTitleState, which replaced SetFilterState.
C30_Witness ==
    /\ Interp("Yield")
    /\ state.kind = "QuickInputState"
    /\ stack_pos = 2
    /\ YieldTarget(stack, stack_pos).kind = "SetFilterTitleState"
    /\ result.value = OptString(Some(<<"e">>))

\* C31: whenever the application's machine waits for the next key,
\* quick_input is present iff QuickInputState or SearchTaskState is active,
\* quick_select is present iff QuickSelectState is active, and search is present
\* iff SearchTaskState is active; and no hook fails on an unwrap() of None.
C31_Overlays ==
    /\ pc = "idle" =>
          /\ data.quick_input.some <=> state.kind \in {"QuickInputState", "SearchTaskState"}
          /\ data.quick_select.some <=> state.kind = "QuickSelectState"
          /\ data.search.some <=> state.kind = "SearchTaskState"
    /\ ~(result.tag = "Panic" /\ result.value.ty = Unwrap)

\* The search dialog is open and has received a key: both its overlays are in
\* the context, the selection overlay is not.
C31_Witness ==
    /\ pc = "idle"
    /\ state.kind = "SearchTaskState"
    /\ calls = <<Call("act", state, NoVal)>>
    /\ data.quick_input.some /\ data.search.some /\ ~data.quick_select.some

\* The base unit: the active unit when the stack is empty, else stack entry 0
BaseUnit == IF stack = <<>> THEN state ELSE stack[1]

\* C32: whenever the application's machine waits for the next key, the pane is
\* OneTask iff the base unit is OneTaskState and Main iff it is NormalState; and
\* no hook fails with "Wrong pane".
C32_Pane ==
    /\ pc = "idle" =>
          /\ data.pane.tag = "OneTask" <=> BaseUnit.kind = "OneTaskState"
          /\ data.pane.tag = "Main" <=> BaseUnit.kind = "NormalState"
    /\ ~(result.tag = "Panic" /\ result.value.ty = WrongPane)

\* A task view was opened and left again with Esc: NormalState is active again
\* and the pane is Main again.
C32_Witness ==
    /\ pc = "idle"
    /\ state.kind = "NormalState"
    /\ stack = <<>>
    /\ state.id > 2
    /\ data.pane.tag = "Main"

\* The value is None (Option<String> or Option<TaskId>).
NoneArg(x) == \/ x.ty = "Option<String>" /\ ~x.v.some
              \/ x.ty = "Option<TaskId>" /\ x.v = 0

\* The cascade of a cancelled dialog: the act of the active dialog has declared
\* a finish with None (what Esc does), or the mediator below it has since been
\* resumed with that None.
Cancelling ==
    /\ calls # <<>>
    /\ calls[1].hook = "act"
    /\ \/ /\ Len(calls) = 1
          /\ state.kind \in DialogKinds
          /\ result.tag = "Return"
          /\ NoneArg(result.value)
       \/ /\ Len(calls) >= 3
          /\ calls[3].hook = "resume"
          /\ NoneArg(calls[3].arg)

\* C33: when a dialog (QuickInputState, QuickSelectState, SearchTaskState)
\* active above [base, mediator] is cancelled by a key, no step of that key's
\* cascade changes the task store or the base unit, and when the cascade has
\* ended the base unit is active above an empty stack, the hooks called were
\* dialog.act, dialog.on_exit, mediator.resume(None), mediator.on_exit,
\* base.resume(()), and the dialog and the mediator have each had on_exit
\* exactly once.
C33_Cancel ==
    [][Cancelling' =>
          /\ data'.data.store = data.data.store
          /\ BaseUnit' = BaseUnit
          /\ pc' = "idle" =>
                /\ state'.kind \in BaseKinds
                /\ stack' = <<>>
                /\ Len(calls') = 5
                /\ calls'[2] = [hook |-> "on_exit", id |-> calls'[1].id, arg |-> NoVal]
                /\ calls'[4] = [hook |-> "on_exit", id |-> calls'[3].id, arg |-> NoVal]
                /\ calls'[5] = Call("resume", state', UnitVal)
                /\ calls'[1].id # calls'[3].id
                /\ CopiesIn(calls'[1].id, exited') = 1
                /\ CopiesIn(calls'[3].id, exited') = 1
      ]_vars

\* The title dialog of a new task was cancelled while a task existed:
\* NormalState is active again and the store still holds that one task.
C33_Witness ==
    /\ pc = "idle"
    /\ Cancelling
    /\ Len(calls) = 5
    /\ calls[3].arg = OptString(None)
    /\ state = AppUnit(1, "NormalState", 0, NoParams)
    /\ stack = <<>>
    /\ DOMAIN data.data.store.tasks = {1}

\* The hook calls of the current Machine::act that returned an effect (every
\* hook but on_exit returns one).
RECURSIVE Returned(_)
Returned(cs) ==
    IF cs = <<>> THEN 0
    ELSE Returned(Tail(cs)) + (IF Head(cs).hook = "on_exit" THEN 0 ELSE 1)

\* The non-terminal effects of the current Machine::act: the effects returned
\* so far, less the one that ends the cascade (Nothing).
NonTerminal == Returned(calls) - (IF calls # <<>> /\ result.tag = "Nothing" THEN 1 ELSE 0)

\* C34: in the application at most 3 effects other than Nothing are declared
\* in the cascade of one key event, and a cascade that has not ended can always
\* take its next step (it never stops in a panic): every step terminates.
C34_Terminates ==
    /\ NonTerminal <= 3
    /\ pc # "idle" => ENABLED NextApp

\* 'Title' was chosen in the filter menu: the cascade declared finish, replace
\* and push, and has ended with the continuous input dialog active.
C34_Witness ==
    /\ pc = "idle"
    /\ NonTerminal = 3
    /\ Len(calls) = 6
    /\ calls[3].hook = "resume"
    /\ calls[5].hook = "on_enter"
    /\ state.kind = "QuickInputState"
    /\ Kinds(stack) = <<"NormalState", "SetFilterTitleState">>

\* Every TaskList of the application: the main task list, the link list of the
\* task view and the list of the search dialog.
TaskLists ==
    {data.tasklist}
    \cup (IF data.pane.tag = "OneTask" THEN {data.pane.view.link_list} ELSE {})
    \cup (IF data.search.some THEN {data.search.x.list} ELSE {})

\* C35: in every reachable state of the application the selection of every
\* TaskList is 0 when the list is empty and less than the length of the list
\* otherwise.
C35_Selection ==
    \A list \in TaskLists :
        IF list.tasks = <<>> THEN list.selection = 0 ELSE list.selection < Len(list.tasks)

\* Down has moved the selection of the main list and of the search list to
\* their second entries.
C35_Witness ==
    /\ pc = "idle"
    /\ data.tasklist.selection = 1
    /\ data.search.some
    /\ data.search.x.list.selection = 1
    /\ Len(data.search.x.list.tasks) = 2

\* C36: in every reachable state of the application, for all tasks a and b of
\* the store, b occurs in the links of a iff a occurs in the links of b.
C36_Symmetric ==
    LET tasks == data.data.store.tasks IN
    \A a, b \in DOMAIN tasks : b \in SeqIds(tasks[a].links) <=> a \in SeqIds(tasks[b].links)

\* Two different tasks have been linked, each lists the other.
C36_Witness ==
    /\ pc = "idle"
    /\ DOMAIN data.data.store.tasks = {1, 2}
    /\ data.data.store.tasks[1].links = <<2>>
    /\ data.data.store.tasks[2].links = <<1>>

\* C37: whenever the application's machine waits for the next key and the base
\* unit is OneTaskState(t), the link list of the task view is the sequence of
\* the stored links of task t.
C37_InSync ==
    (pc = "idle" /\ BaseUnit.kind = "OneTaskState") =>
        data.pane.view.link_list.tasks = data.data.store.tasks[BaseUnit.f].links

====
